---- MODULE Spec2Model ----
(***************************************************************************)
(* A model of debounce-toolkit: debounce(fn, wait, modeOrOptions) of       *)
(* src/src/debounce.ts, the closure state it creates (timeoutId, lastArgs, *)
(* lastThis, leadingCalled), the debounced function and its cancel, flush  *)
(* and pending methods, together with the host's one-shot timer facility   *)
(* (setTimeout / clearTimeout) and a discrete clock.                       *)
(*                                                                         *)
(* Program state : construction, mode, wait, timeoutId, lastArgs,          *)
(*                 lastThis, leadingCalled                                 *)
(* Host state    : timers (the live scheduled callbacks), nextId, now      *)
(* History       : calls, invocations, open, closed (what an observer of   *)
(*                 the debounced function and of the target has seen)      *)
(* Nesting       : frame (the handler whose target invocation is running,  *)
(*                 when the target calls back into the controller)         *)
(* Second closure: peer, active (a second controller made by another call  *)
(*                 of debounce, sharing the host's timers and the target)  *)
(***************************************************************************)
EXTENDS Integers, Sequences, FiniteSets

VARIABLES construction, mode, wait, timeoutId, lastArgs, lastThis,
          leadingCalled, timers, nextId, now, calls, invocations, open, closed,
          frame, peer, active

vars == <<construction, mode, wait, timeoutId, lastArgs, lastThis,
          leadingCalled, timers, nextId, now, calls, invocations, open, closed,
          frame, peer, active>>

closureVars == <<timeoutId, lastArgs, lastThis, leadingCalled>>
hostVars == <<timers, nextId, now>>
historyVars == <<calls, invocations, open, closed>>
nestingVars == <<frame, peer, active>>

\* ------------------------------------------------------------------ bounds

\* Calls of the debounced function in one behaviour.
MaxCalls == 3
\* Calls are made at times 0..MaxTime; the clock advances freely up to
\* MaxTime, and beyond it only towards the deadline of a live timer.
MaxTime == 2
\* Calls made on two controllers together in one behaviour.
MaxPairedCalls == 2

\* ------------------------------------------------------- JavaScript values

\* A JavaScript value: a kind, and the payload of a string or a number.
JsValue(k, str, num) == [k |-> k, s |-> str, n |-> num]
Undefined == JsValue("undefined", "", 0)
JsNull == JsValue("null", "", 0)
NaN == JsValue("nan", "", 0)
Num(i) == JsValue("number", "", i)
Str(x) == JsValue("string", x, 0)
Bool(x) == JsValue("boolean", x, 0)
Func == JsValue("function", "", 0)

\* typeof v
TypeOf(v) ==
  CASE v.k = "undefined" -> "undefined"
    [] v.k = "null" -> "object"
    [] v.k = "nan" -> "number"
    [] v.k = "number" -> "number"
    [] v.k = "string" -> "string"
    [] v.k = "boolean" -> "boolean"
    [] v.k = "function" -> "function"

\* a ?? b
Coalesce(a, b) == IF a.k \in {"undefined", "null"} THEN b ELSE a

\* a < 0 for a value whose typeof is "number": false for NaN
LessThanZero(v) == v.k = "number" /\ v.n < 0

\* The third argument of debounce: a bare value, or an options object whose
\* mode property has value v (Undefined when the object has no mode).
Bare(v) == [kind |-> "bare", v |-> v]
Options(v) == [kind |-> "options", v |-> v]

TypeOfThird(third) == IF third.kind = "options" THEN "object" ELSE TypeOf(third.v)

\* modeOrOptions?.mode : undefined for undefined and null (the chain stops),
\* the property for an object, undefined for any other primitive.
OptionalMode(third) == IF third.kind = "options" THEN third.v ELSE Undefined

\* enum DebounceMode
TRAILING == "trailing"
LEADING == "leading"
BOTH == "both"
DebounceMode == {TRAILING, LEADING, BOTH}

\* Object.values(DebounceMode).includes(m)
IsDebounceMode(m) == m.k = "string" /\ m.s \in DebounceMode

\* ------------------------------------------------------------ construction

\* wait = wait ?? 0
DefaultedWait(w) == Coalesce(w, Num(0))

\* const mode = typeof modeOrOptions === "string" ? modeOrOptions
\*                : modeOrOptions?.mode ?? DebounceMode.TRAILING
ResolveMode(third) ==
  IF TypeOfThird(third) = "string" THEN third.v
  ELSE Coalesce(OptionalMode(third), Str(TRAILING))

\* The TypeError debounce throws for these arguments, "" when it throws none.
ValidationError(fn, w, m) ==
  IF TypeOf(fn) # "function" THEN "Expected fn to be a function"
  ELSE IF TypeOf(w) # "number" \/ LessThanZero(w)
    THEN "Expected wait to be a non-negative number"
  ELSE IF ~IsDebounceMode(m) THEN "Invalid debounce mode"
  ELSE ""

NoTimer == 0
NullValue == "null"
NoBurst == [first |-> 0, inv0 |-> 0]
\* No handler is waiting for the target to return.
NoFrame == [op |-> "none", lead |-> FALSE, trail |-> FALSE]

\* The closure of a controller other than the one the closure variables
\* describe: what debounce(...) returned as c holds, the handles setTimeout
\* has given it (ids), and the bursts seen of it.
PeerOf(c) ==
  [mode |-> c.mode, wait |-> c.wait, timeoutId |-> NoTimer,
   lastArgs |-> NullValue, lastThis |-> NullValue, leadingCalled |-> FALSE,
   ids |-> {}, open |-> NoBurst, closed |-> <<>>]

\* No second controller was made.
NoPeer == PeerOf([mode |-> "", wait |-> Undefined])

\* What setTimeout does with its delay: NaN counts as no delay.
TimerDelay(w) == IF w.k = "number" THEN w.n ELSE 0

\* debounce(fn, wait, modeOrOptions) called with the arguments g: what it
\* throws (error), and the mode and wait the returned controller closes over.
Debounce(g) ==
  LET w == DefaultedWait(g.wait)
      m == ResolveMode(g.third)
      err == ValidationError(g.fn, w, m)
  IN [args |-> g, phase |-> IF err = "" THEN "ready" ELSE "threw",
      error |-> err, mode |-> IF err = "" THEN m.s ELSE "", wait |-> w]

\* ------------------------------------------------------ the timer facility

\* A clearTimeout that unschedules every callback.
ClearTimeoutAll(reg, id) == {}

\* clearTimeout(id): the callback with this handle is no longer scheduled;
\* nothing happens when it has fired or was cleared already.
ClearTimeout(reg, id) == {t \in reg : t.id # id}

\* Mutant of NewTimer: setTimeout(callback) without the wait.
NewTimerWithoutWait(id, at, w, lead, trail) ==
  [id |-> id, due |-> at,
   shouldCallLeading |-> lead, shouldCallTrailing |-> trail]

\* setTimeout(callback, wait) at time `at`: the callback closes over the
\* shouldCallLeading and shouldCallTrailing of the call that creates it.
NewTimer(id, at, w, lead, trail) ==
  [id |-> id, due |-> at + TimerDelay(w),
   shouldCallLeading |-> lead, shouldCallTrailing |-> trail]

\* --------------------------------------------------------- the controller

\* Mutant of Cleanup: the handle is forgotten and clearTimeout is not called.
CleanupKeepsTimer(id, reg) ==
  IF id # NoTimer
  THEN [timeoutId |-> NoTimer, timers |-> reg]
  ELSE [timeoutId |-> id, timers |-> reg]

\* cleanup(): the handle the closure holds and the host's timers afterwards.
Cleanup(id, reg) ==
  IF id # NoTimer
  THEN [timeoutId |-> NoTimer, timers |-> ClearTimeout(reg, id)]
  ELSE [timeoutId |-> id, timers |-> reg]

\* Mutant of ShouldCallLeading: leadingCalled is not consulted.
ShouldCallLeadingAlways(m, lc) == m \in {LEADING, BOTH}

ShouldCallLeading(m, lc) == m \in {LEADING, BOTH} /\ ~lc

\* A shouldCallTrailing that is true in BOTH mode only.
ShouldCallTrailingOnlyBoth(m) == m = BOTH

ShouldCallTrailing(m) == m \in {TRAILING, BOTH}

\* Mutant of TrailingCondition: && in place of ||.
TrailingConditionAnd(t, lc) ==
  t.shouldCallTrailing /\ (~t.shouldCallLeading /\ lc)

\* The test of the timer callback, with leadingCalled read when it runs.
TrailingCondition(t, lc) ==
  t.shouldCallTrailing /\ (~t.shouldCallLeading \/ lc)

\* A test of flush that looks at lastArgs only.
FlushConditionArgsOnly(id, la) == la # NullValue

\* The test of flush: a handle is held and lastArgs is an array.
FlushCondition(id, la) == id # NoTimer /\ la # NullValue

\* Mutant of Pending: lastArgs is tested in place of the handle.
PendingByLastArgs == lastArgs # NullValue

\* debounced.pending()
Pending == timeoutId # NoTimer

\* ---------------------------------------------------------------- history

\* The calls made: f.call(r1, a) and f.call(r2, b).
CallInputs == { [args |-> "a", this |-> "r1"], [args |-> "b", this |-> "r2"] }

\* Mutant of Invocation: fn(...args), the receiver is not passed on.
InvocationWithoutReceiver(r, a, via, ncalls) ==
  [this |-> NullValue, args |-> a, at |-> now, via |-> via, ncalls |-> ncalls]

\* fn.apply(this, args), as the target sees it: `via` is the place of the
\* apply, `ncalls` the number of calls made so far.
Invocation(r, a, via, ncalls) ==
  [this |-> r, args |-> a, at |-> now, via |-> via, ncalls |-> ncalls]

\* A burst is the calls made since the last timer firing, cancel or flush:
\* `open` is the burst under way (its first call, and the invocations seen
\* before it), NoBurst when no call was made since. Closure is the record of
\* the burst that ends with this step.
Closure(how, inv1) ==
  [first |-> open.first, last |-> Len(calls), inv0 |-> open.inv0,
   inv1 |-> inv1, how |-> how, at |-> now]

\* ----------------------------------------------------------------- actions

\* The target's behaviour when it is applied.
Returns == "returns"
Throws == "throws"

\* Mutant of Call: the leading invocation is not recorded in leadingCalled.
CallForgetsLeadingCalled(a, r, outcome) ==
  LET shouldCallLeading == ShouldCallLeading(mode, leadingCalled)
      shouldCallTrailing == ShouldCallTrailing(mode)
      cleaned == Cleanup(timeoutId, timers)
      timer == NewTimer(nextId, now, wait, shouldCallLeading, shouldCallTrailing)
      thrown == shouldCallLeading /\ outcome = Throws
  IN /\ construction.phase = "ready"
     /\ Len(calls) < MaxCalls
     /\ now <= MaxTime
     /\ lastArgs' = a
     /\ lastThis' = r
     /\ calls' = Append(calls, [args |-> a, this |-> r, at |-> now])
     /\ invocations' = IF shouldCallLeading
                       THEN Append(invocations, Invocation(r, a, "leading", Len(calls) + 1))
                       ELSE invocations
     /\ leadingCalled' = leadingCalled
     /\ timeoutId' = IF thrown THEN cleaned.timeoutId ELSE timer.id
     /\ timers' = IF thrown THEN cleaned.timers ELSE cleaned.timers \cup {timer}
     /\ nextId' = IF thrown THEN nextId ELSE nextId + 1
     /\ open' = IF open = NoBurst
                THEN [first |-> Len(calls) + 1, inv0 |-> Len(invocations)]
                ELSE open
     /\ UNCHANGED <<construction, mode, wait, now, closed>>
     /\ UNCHANGED nestingVars

\* Mutant of Call: the arguments and the receiver are not stored.
CallForgetsLastArgs(a, r, outcome) ==
  LET shouldCallLeading == ShouldCallLeading(mode, leadingCalled)
      shouldCallTrailing == ShouldCallTrailing(mode)
      cleaned == Cleanup(timeoutId, timers)
      timer == NewTimer(nextId, now, wait, shouldCallLeading, shouldCallTrailing)
      thrown == shouldCallLeading /\ outcome = Throws
  IN /\ construction.phase = "ready"
     /\ Len(calls) < MaxCalls
     /\ now <= MaxTime
     /\ lastArgs' = lastArgs
     /\ lastThis' = lastThis
     /\ calls' = Append(calls, [args |-> a, this |-> r, at |-> now])
     /\ invocations' = IF shouldCallLeading
                       THEN Append(invocations, Invocation(r, a, "leading", Len(calls) + 1))
                       ELSE invocations
     /\ leadingCalled' = IF shouldCallLeading /\ ~thrown THEN TRUE ELSE leadingCalled
     /\ timeoutId' = IF thrown THEN cleaned.timeoutId ELSE timer.id
     /\ timers' = IF thrown THEN cleaned.timers ELSE cleaned.timers \cup {timer}
     /\ nextId' = IF thrown THEN nextId ELSE nextId + 1
     /\ open' = IF open = NoBurst
                THEN [first |-> Len(calls) + 1, inv0 |-> Len(invocations)]
                ELSE open
     /\ UNCHANGED <<construction, mode, wait, now, closed>>
     /\ UNCHANGED nestingVars

\* debounced.call(r, a): one call of the debounced function.
Call(a, r, outcome) ==
  LET shouldCallLeading == ShouldCallLeading(mode, leadingCalled)
      shouldCallTrailing == ShouldCallTrailing(mode)
      cleaned == Cleanup(timeoutId, timers)
      timer == NewTimer(nextId, now, wait, shouldCallLeading, shouldCallTrailing)
      thrown == shouldCallLeading /\ outcome = Throws
  IN /\ construction.phase = "ready"
     /\ Len(calls) < MaxCalls
     /\ now <= MaxTime
     /\ lastArgs' = a
     /\ lastThis' = r
     /\ calls' = Append(calls, [args |-> a, this |-> r, at |-> now])
     /\ invocations' = IF shouldCallLeading
                       THEN Append(invocations, Invocation(r, a, "leading", Len(calls) + 1))
                       ELSE invocations
     /\ leadingCalled' = IF shouldCallLeading /\ ~thrown THEN TRUE ELSE leadingCalled
     /\ timeoutId' = IF thrown THEN cleaned.timeoutId ELSE timer.id
     /\ timers' = IF thrown THEN cleaned.timers ELSE cleaned.timers \cup {timer}
     /\ nextId' = IF thrown THEN nextId ELSE nextId + 1
     /\ open' = IF open = NoBurst
                THEN [first |-> Len(calls) + 1, inv0 |-> Len(invocations)]
                ELSE open
     /\ UNCHANGED <<construction, mode, wait, now, closed>>
     /\ UNCHANGED nestingVars

\* Mutant of TimerFires: the callback does not reset leadingCalled.
TimerFiresKeepsLeading(t, outcome) ==
  LET applies == TrailingCondition(t, leadingCalled)
      thrown == applies /\ outcome = Throws
  IN /\ t \in timers
     /\ t.due <= now
     /\ timers' = timers \ {t}
     /\ invocations' = IF applies
                       THEN Append(invocations, Invocation(lastThis, lastArgs, "trailing", Len(calls)))
                       ELSE invocations
     /\ timeoutId' = IF thrown THEN timeoutId ELSE NoTimer
     /\ closed' = Append(closed, Closure("fired", Len(invocations')))
     /\ open' = NoBurst
     /\ UNCHANGED <<construction, mode, wait, lastArgs, lastThis, leadingCalled,
                    nextId, now, calls>>
     /\ UNCHANGED nestingVars

\* The host runs the callback of the due timer t.
TimerFires(t, outcome) ==
  LET applies == TrailingCondition(t, leadingCalled)
      thrown == applies /\ outcome = Throws
  IN /\ t \in timers
     /\ t.due <= now
     /\ timers' = timers \ {t}
     /\ invocations' = IF applies
                       THEN Append(invocations, Invocation(lastThis, lastArgs, "trailing", Len(calls)))
                       ELSE invocations
     /\ timeoutId' = IF thrown THEN timeoutId ELSE NoTimer
     /\ leadingCalled' = IF thrown THEN leadingCalled ELSE FALSE
     /\ closed' = Append(closed, Closure("fired", Len(invocations')))
     /\ open' = NoBurst
     /\ UNCHANGED <<construction, mode, wait, lastArgs, lastThis, nextId, now, calls>>
     /\ UNCHANGED nestingVars

\* Mutant of Cancel: leadingCalled is not reset.
CancelKeepsLeading ==
  LET cleaned == Cleanup(timeoutId, timers)
  IN /\ construction.phase = "ready"
     /\ timeoutId' = cleaned.timeoutId
     /\ timers' = cleaned.timers
     /\ closed' = IF open # NoBurst
                  THEN Append(closed, Closure("cancelled", Len(invocations)))
                  ELSE closed
     /\ open' = NoBurst
     /\ UNCHANGED <<construction, mode, wait, lastArgs, lastThis, leadingCalled,
                    nextId, now, calls, invocations>>
     /\ UNCHANGED nestingVars

\* Mutant of Cancel: leadingCalled is reset and the timer is left alone.
CancelWithoutCleanup ==
  /\ construction.phase = "ready"
  /\ leadingCalled' = FALSE
  /\ closed' = IF open # NoBurst
               THEN Append(closed, Closure("cancelled", Len(invocations)))
               ELSE closed
  /\ open' = NoBurst
  /\ UNCHANGED <<construction, mode, wait, timeoutId, timers, lastArgs, lastThis,
                 nextId, now, calls, invocations>>
  /\ UNCHANGED nestingVars

\* debounced.cancel()
Cancel ==
  LET cleaned == Cleanup(timeoutId, timers)
  IN /\ construction.phase = "ready"
     /\ timeoutId' = cleaned.timeoutId
     /\ timers' = cleaned.timers
     /\ leadingCalled' = FALSE
     /\ closed' = IF open # NoBurst
                  THEN Append(closed, Closure("cancelled", Len(invocations)))
                  ELSE closed
     /\ open' = NoBurst
     /\ UNCHANGED <<construction, mode, wait, lastArgs, lastThis, nextId, now,
                    calls, invocations>>
     /\ UNCHANGED nestingVars

\* Mutant of Flush: the target is applied and the pending timer is left alone.
FlushWithoutCleanup(outcome) ==
  /\ construction.phase = "ready"
  /\ IF FlushCondition(timeoutId, lastArgs)
     THEN /\ invocations' = Append(invocations, Invocation(lastThis, lastArgs, "flush", Len(calls)))
          /\ leadingCalled' = IF outcome = Throws THEN leadingCalled ELSE FALSE
     ELSE UNCHANGED <<invocations, leadingCalled>>
  /\ closed' = IF open # NoBurst
               THEN Append(closed, Closure("flushed", Len(invocations')))
               ELSE closed
  /\ open' = NoBurst
  /\ UNCHANGED <<construction, mode, wait, timeoutId, timers, lastArgs, lastThis,
                 nextId, now, calls>>
  /\ UNCHANGED nestingVars

\* debounced.flush()
Flush(outcome) ==
  LET cleaned == Cleanup(timeoutId, timers)
  IN /\ construction.phase = "ready"
     /\ IF FlushCondition(timeoutId, lastArgs)
        THEN /\ timeoutId' = cleaned.timeoutId
             /\ timers' = cleaned.timers
             /\ invocations' = Append(invocations, Invocation(lastThis, lastArgs, "flush", Len(calls)))
             /\ leadingCalled' = IF outcome = Throws THEN leadingCalled ELSE FALSE
        ELSE UNCHANGED <<timeoutId, timers, invocations, leadingCalled>>
     /\ closed' = IF open # NoBurst
                  THEN Append(closed, Closure("flushed", Len(invocations')))
                  ELSE closed
     /\ open' = NoBurst
     /\ UNCHANGED <<construction, mode, wait, lastArgs, lastThis, nextId, now, calls>>
     /\ UNCHANGED nestingVars

\* One unit of time passes. The timer facility is exact: a due timer fires
\* (or is cleared) before the clock moves on.
Tick ==
  /\ construction.phase = "ready"
  /\ \A t \in timers : t.due > now
  /\ now < MaxTime \/ timers # {}
  /\ now' = now + 1
  /\ UNCHANGED <<construction, mode, wait, closureVars, timers, nextId, historyVars>>
  /\ UNCHANGED nestingVars

\* -------------------------------------------------- a second controller
\* Each call of debounce makes its own timeoutId, lastArgs, lastThis and
\* leadingCalled; two controllers share the host's timers and, here, the
\* target. The closure variables hold the state of the controller the caller
\* is using, peer holds that of the other one.

Controllers == {1, 2}

\* The handles setTimeout has given to the controller in use.
OwnIds == (1..(nextId - 1)) \ peer.ids

\* The caller turns to the other controller: no statement of the program
\* runs, the two closures change places in the variables.
Switch ==
  /\ construction.phase = "ready"
  /\ frame = NoFrame
  /\ peer # NoPeer
  /\ active' = CHOOSE i \in Controllers : i # active
  /\ mode' = peer.mode
  /\ wait' = peer.wait
  /\ timeoutId' = peer.timeoutId
  /\ lastArgs' = peer.lastArgs
  /\ lastThis' = peer.lastThis
  /\ leadingCalled' = peer.leadingCalled
  /\ open' = peer.open
  /\ closed' = peer.closed
  /\ peer' = [mode |-> mode, wait |-> wait, timeoutId |-> timeoutId,
              lastArgs |-> lastArgs, lastThis |-> lastThis,
              leadingCalled |-> leadingCalled,
              ids |-> OwnIds, open |-> open, closed |-> closed]
  /\ UNCHANGED <<construction, hostVars, calls, invocations, frame>>

\* ------------------------------ handlers in two halves, around fn.apply
\* While the target runs, the handler that applied it has not finished: the
\* statements after fn.apply run when the target returns. A call of the
\* debounced function made by the target in between is a whole Call.

\* debounced.call(r, a) up to the leading invocation, which is under way.
CallEnters(a, r) ==
  LET cleaned == Cleanup(timeoutId, timers)
  IN /\ construction.phase = "ready"
     /\ frame = NoFrame
     /\ Len(calls) < MaxCalls
     /\ now <= MaxTime
     /\ ShouldCallLeading(mode, leadingCalled)
     /\ lastArgs' = a
     /\ lastThis' = r
     /\ calls' = Append(calls, [args |-> a, this |-> r, at |-> now])
     /\ timeoutId' = cleaned.timeoutId
     /\ timers' = cleaned.timers
     /\ invocations' = Append(invocations, Invocation(r, a, "leading", Len(calls) + 1))
     /\ frame' = [op |-> "call", lead |-> TRUE, trail |-> ShouldCallTrailing(mode)]
     /\ open' = IF open = NoBurst
                THEN [first |-> Len(calls) + 1, inv0 |-> Len(invocations)]
                ELSE open
     /\ UNCHANGED <<construction, mode, wait, leadingCalled, nextId, now, closed,
                    peer, active>>

\* The leading invocation returns: leadingCalled is set and the timer of
\* the call is scheduled, its handle replacing whatever timeoutId holds.
CallReturns ==
  LET timer == NewTimer(nextId, now, wait, frame.lead, frame.trail)
  IN /\ frame.op = "call"
     /\ leadingCalled' = TRUE
     /\ timeoutId' = timer.id
     /\ timers' = timers \cup {timer}
     /\ nextId' = nextId + 1
     /\ frame' = NoFrame
     /\ UNCHANGED <<construction, mode, wait, lastArgs, lastThis, now, historyVars,
                    peer, active>>

\* The callback of the due timer t up to its invocation, which is under way.
TimerEnters(t) ==
  /\ frame = NoFrame
  /\ t \in timers
  /\ t.due <= now
  /\ TrailingCondition(t, leadingCalled)
  /\ timers' = timers \ {t}
  /\ invocations' = Append(invocations, Invocation(lastThis, lastArgs, "trailing", Len(calls)))
  /\ closed' = Append(closed, Closure("fired", Len(invocations')))
  /\ open' = NoBurst
  /\ frame' = [op |-> "timer", lead |-> t.shouldCallLeading, trail |-> t.shouldCallTrailing]
  /\ UNCHANGED <<construction, mode, wait, closureVars, nextId, now, calls, peer, active>>

\* The invocation made by the callback returns: the handle and leadingCalled
\* are reset, whatever they hold by now.
TimerReturns ==
  /\ frame.op = "timer"
  /\ timeoutId' = NoTimer
  /\ leadingCalled' = FALSE
  /\ frame' = NoFrame
  /\ UNCHANGED <<construction, mode, wait, lastArgs, lastThis, hostVars, historyVars,
                 peer, active>>

\* debounced.flush() up to its invocation, which is under way.
FlushEnters ==
  LET cleaned == Cleanup(timeoutId, timers)
  IN /\ construction.phase = "ready"
     /\ frame = NoFrame
     /\ FlushCondition(timeoutId, lastArgs)
     /\ timeoutId' = cleaned.timeoutId
     /\ timers' = cleaned.timers
     /\ invocations' = Append(invocations, Invocation(lastThis, lastArgs, "flush", Len(calls)))
     /\ closed' = IF open # NoBurst
                  THEN Append(closed, Closure("flushed", Len(invocations')))
                  ELSE closed
     /\ open' = NoBurst
     /\ frame' = [op |-> "flush", lead |-> FALSE, trail |-> FALSE]
     /\ UNCHANGED <<construction, mode, wait, lastArgs, lastThis, leadingCalled,
                    nextId, now, calls, peer, active>>

\* The invocation made by flush returns: leadingCalled is reset.
FlushReturns ==
  /\ frame.op = "flush"
  /\ leadingCalled' = FALSE
  /\ frame' = NoFrame
  /\ UNCHANGED <<construction, mode, wait, timeoutId, lastArgs, lastThis, hostVars,
                 historyVars, peer, active>>

\* ----------------------------------------------------------- specification

\* The waits the controllers of the timing specification are built with:
\* no delay, one unit, several units.
Waits == {0, 1, 2}

\* Arguments of a well-typed construction: debounce(fn, w, m).
WellTyped == { [fn |-> Func, wait |-> Num(w), third |-> Bare(Str(m))] :
               w \in Waits, m \in DebounceMode }

\* The state after debounce(...) has been called for c, with p the closure
\* of the second controller, if one was made.
InitWithPeer(c, p) ==
  /\ frame = NoFrame
  /\ peer = p
  /\ active = 1
  /\ construction = [args |-> c.args, phase |-> c.phase, error |-> c.error]
  /\ mode = c.mode
  /\ wait = c.wait
  /\ timeoutId = NoTimer
  /\ lastArgs = NullValue
  /\ lastThis = NullValue
  /\ leadingCalled = FALSE
  /\ timers = {}
  /\ nextId = 1
  /\ now = 0
  /\ calls = <<>>
  /\ invocations = <<>>
  /\ open = NoBurst
  /\ closed = <<>>

InitWith(c) == InitWithPeer(c, NoPeer)

\* The state after debounce(fn, w, m) has returned a controller.
Init == \E g \in WellTyped : InitWith(Debounce(g))

\* The target returns normally from every invocation.
Next ==
  \/ \E c \in CallInputs : Call(c.args, c.this, Returns)
  \/ \E t \in timers : TimerFires(t, Returns)
  \/ Cancel
  \/ Flush(Returns)
  \/ Tick

Spec == Init /\ [][Next]_vars

\* The host's timer facility: time passes, and the callback of a due timer
\* is run.
TimersFire ==
  /\ WF_vars(Tick)
  /\ WF_vars(\E t \in timers : TimerFires(t, Returns))

\* The constructions followed to the end of their bursts: every mode, with
\* the timer due at once or one unit of time later.
InitFair ==
  \E g \in WellTyped : TimerDelay(g.wait) <= 1 /\ InitWith(Debounce(g))

SpecFair == InitFair /\ [][Next]_vars /\ TimersFire

\* ------------------------------------------ specification, two controllers

\* Arguments of the construction of a controller used beside another one:
\* a wait long enough for the other controller to be used while a timer is
\* pending.
PairedArgs(m) == [fn |-> Func, wait |-> Num(1), third |-> Bare(Str(m))]

\* The modes of two controllers; which of the two is used first makes no
\* difference, so each pair is taken in one order.
ModePairs ==
  {<<TRAILING, TRAILING>>, <<TRAILING, LEADING>>, <<TRAILING, BOTH>>,
   <<LEADING, LEADING>>, <<LEADING, BOTH>>, <<BOTH, BOTH>>}

\* Two calls of debounce have each returned a controller.
InitTwo ==
  \E mp \in ModePairs :
    InitWithPeer(Debounce(PairedArgs(mp[1])), PeerOf(Debounce(PairedArgs(mp[2]))))

\* The operations are made on the controller in use, and the host runs the
\* callback of that controller when one of its timers is due.
NextTwo ==
  \/ \E c \in CallInputs : Len(calls) < MaxPairedCalls /\ Call(c.args, c.this, Returns)
  \/ \E t \in timers : t.id \in OwnIds /\ TimerFires(t, Returns)
  \/ Cancel
  \/ Flush(Returns)
  \/ Tick
  \/ Switch

SpecTwo == InitTwo /\ [][NextTwo]_vars

\* ------------------------------------------ specification, raising target

Outcomes == {Returns, Throws}

\* The target returns from an invocation or raises in it; the controller
\* catches nothing, so the handler's remaining statements are skipped.
NextRaising ==
  \/ \E c \in CallInputs, o \in Outcomes : Call(c.args, c.this, o)
  \/ \E t \in timers, o \in Outcomes : TimerFires(t, o)
  \/ Cancel
  \/ \E o \in Outcomes : Flush(o)
  \/ Tick

SpecRaising == Init /\ [][NextRaising]_vars

\* --------------------------------------- specification, re-entrant target

\* The target may call the debounced function while it runs: Call is taken
\* at top level and inside an invocation; everything else waits for the
\* target to return (one thread). An invocation made by a call from inside
\* the target returns without calling again.
NextReentrant ==
  \/ \E c \in CallInputs : Call(c.args, c.this, Returns)
  \/ \E c \in CallInputs : CallEnters(c.args, c.this)
  \/ CallReturns
  \/ \E t \in timers : TimerEnters(t)
  \/ TimerReturns
  \/ FlushEnters
  \/ FlushReturns
  \/ frame = NoFrame /\ \E t \in timers : TimerFires(t, Returns)
  \/ frame = NoFrame /\ Cancel
  \/ frame = NoFrame /\ Flush(Returns)
  \/ frame = NoFrame /\ Tick

SpecReentrant == Init /\ [][NextReentrant]_vars

\* ------------------------------------------- specification of construction

FnArgs == {Func, Str("not a function"), Undefined}
WaitArgs == {Undefined, JsNull, Num(-1), Num(0), Num(1), NaN, Str("100")}
ModeArgs == {Undefined, JsNull, Str(TRAILING), Str(LEADING), Str(BOTH),
             Str("invalid"), Num(42), Bool("true")}
ThirdArgs == {Bare(v) : v \in ModeArgs} \cup {Options(v) : v \in ModeArgs}

\* Any call debounce(fn, wait, modeOrOptions), before it runs.
InitConstruct ==
  \E fn \in FnArgs, w \in WaitArgs, third \in ThirdArgs :
    InitWith([args |-> [fn |-> fn, wait |-> w, third |-> third],
              phase |-> "new", error |-> "", mode |-> "", wait |-> Undefined])

\* debounce(fn, wait, modeOrOptions) runs: it throws or returns a controller.
Construct ==
  LET c == Debounce(construction.args)
  IN /\ construction.phase = "new"
     /\ construction' = [args |-> c.args, phase |-> c.phase, error |-> c.error]
     /\ mode' = c.mode
     /\ wait' = c.wait
     /\ UNCHANGED <<closureVars, hostVars, historyVars, nestingVars>>

NextConstruct == Construct

SpecConstruct == InitConstruct /\ [][NextConstruct]_vars

\* ------------------------------------------------------------- properties

\* The delay of this controller's timers.
Delay == TimerDelay(wait)

\* The bursts seen so far: every closed one, and the one under way.
ClosedIdx == 1..Len(closed)

\* The records of history refer to calls and invocations that exist.
WellFormed(b) ==
  /\ 1 <= b.first /\ b.first <= b.last /\ b.last <= Len(calls)
  /\ 0 <= b.inv0 /\ b.inv0 <= b.inv1 /\ b.inv1 <= Len(invocations)

\* The number of invocations seen when the burst after closed[i] starts, or
\* seen by now when no burst has started since.
SeenAfter(i) ==
  IF i < Len(closed) THEN closed[i + 1].inv0
  ELSE IF open # NoBurst THEN open.inv0
  ELSE Len(invocations)

\* Invocation number i is a leading one: made inside call number k, at the
\* time of that call, with its receiver and arguments.
IsLeadingOf(i, k) ==
  /\ 1 <= i /\ i <= Len(invocations)
  /\ 1 <= k /\ k <= Len(calls)
  /\ invocations[i].via = "leading"
  /\ invocations[i].ncalls = k
  /\ invocations[i].at = calls[k].at
  /\ invocations[i].args = calls[k].args
  /\ invocations[i].this = calls[k].this

\* Invocation number i is a trailing one for call number k: made by the timer
\* callback when the delay has elapsed after that call, with its receiver and
\* arguments.
IsTrailingOf(i, k) ==
  /\ 1 <= i /\ i <= Len(invocations)
  /\ 1 <= k /\ k <= Len(calls)
  /\ invocations[i].via = "trailing"
  /\ invocations[i].ncalls = k
  /\ invocations[i].at = calls[k].at + Delay
  /\ invocations[i].args = calls[k].args
  /\ invocations[i].this = calls[k].this

\* C1. TRAILING mode: while a burst is under way the target has not been
\* invoked for it; a burst that ends with its timer firing has exactly one
\* invocation, made when the delay has elapsed after its last call, with that
\* call's arguments, and nothing more is invoked before the next burst.
C1_TrailingOncePerBurst ==
  mode = TRAILING =>
    /\ open # NoBurst => Len(invocations) = open.inv0
    /\ \A i \in ClosedIdx :
         closed[i].how = "fired" =>
           /\ WellFormed(closed[i])
           /\ closed[i].inv1 = closed[i].inv0 + 1
           /\ IsTrailingOf(closed[i].inv1, closed[i].last)
           /\ closed[i].at = calls[closed[i].last].at + Delay
           /\ SeenAfter(i) = closed[i].inv1

\* A TRAILING burst of two calls with different arguments, the second made
\* after time has passed, has ended with its timer firing.
C1_Witness ==
  /\ mode = TRAILING
  /\ Delay = 2
  /\ \E i \in ClosedIdx :
       /\ closed[i].how = "fired"
       /\ closed[i].last = closed[i].first + 1
       /\ calls[closed[i].first].args # calls[closed[i].last].args
       /\ calls[closed[i].first].at < calls[closed[i].last].at

\* C2. LEADING mode: every burst starts with one invocation made inside its
\* first call; while the burst is under way that stays the only one, however
\* many calls follow; each call restarts the countdown, so the timer fires
\* when the delay has elapsed after the last call, and its firing adds no
\* invocation; the call after the timer fired starts a burst the same way.
C2_LeadingOncePerBurst ==
  mode = LEADING =>
    /\ open # NoBurst =>
         /\ Len(invocations) = open.inv0 + 1
         /\ IsLeadingOf(open.inv0 + 1, open.first)
    /\ \A i \in ClosedIdx :
         /\ WellFormed(closed[i])
         /\ IsLeadingOf(closed[i].inv0 + 1, closed[i].first)
         /\ closed[i].how = "fired" =>
              /\ closed[i].inv1 = closed[i].inv0 + 1
              /\ closed[i].at = calls[closed[i].last].at + Delay
              /\ SeenAfter(i) = closed[i].inv1

\* A LEADING burst of two calls has ended with its timer firing, and the call
\* made after that has been invoked in turn.
C2_Witness ==
  /\ mode = LEADING
  /\ Len(closed) = 1
  /\ closed[1].how = "fired"
  /\ closed[1].first = 1
  /\ closed[1].last = 2
  /\ open # NoBurst
  /\ open.first = 3
  /\ Len(invocations) = 2

\* C3. BOTH mode: a burst under way has exactly one invocation, made inside
\* its first call with that call's arguments; a burst that ends with its
\* timer firing has exactly two, the second made when the delay has elapsed
\* after its last call, with that call's arguments.
C3_BothTwicePerBurst ==
  mode = BOTH =>
    /\ open # NoBurst =>
         /\ Len(invocations) = open.inv0 + 1
         /\ IsLeadingOf(open.inv0 + 1, open.first)
    /\ \A i \in ClosedIdx :
         closed[i].how = "fired" =>
           /\ WellFormed(closed[i])
           /\ closed[i].inv1 = closed[i].inv0 + 2
           /\ IsLeadingOf(closed[i].inv0 + 1, closed[i].first)
           /\ IsTrailingOf(closed[i].inv1, closed[i].last)
           /\ closed[i].at = calls[closed[i].last].at + Delay
           /\ SeenAfter(i) = closed[i].inv1

\* A BOTH burst of two calls with different arguments has ended with its
\* timer firing, after a burst of one call did.
C3_Witness ==
  /\ mode = BOTH
  /\ Len(closed) = 2
  /\ closed[1].how = "fired"
  /\ closed[1].last = 1
  /\ closed[2].how = "fired"
  /\ closed[2].first = 2
  /\ closed[2].last = 3
  /\ calls[2].args # calls[3].args
  /\ Len(invocations) = 4

\* Every invocation after number n follows a call made after call number k.
NothingLaterFor(n, k) ==
  \A j \in (n + 1)..Len(invocations) : invocations[j].ncalls > k

\* The invocations a burst has had before it ends: none in TRAILING mode, the
\* leading one in LEADING and BOTH mode.
LeadingCount == IF mode = TRAILING THEN 0 ELSE 1

\* C4. In every mode, a burst ended by cancel() has no trailing invocation:
\* cancel invokes nothing, nothing is invoked before the next call however
\* much time passes, and no later invocation is made for a call of the burst;
\* in LEADING and BOTH mode the next call is invoked inside that call.
C4_CancelPreventsTrailing ==
  \A i \in ClosedIdx :
    closed[i].how = "cancelled" =>
      /\ WellFormed(closed[i])
      /\ closed[i].inv1 = closed[i].inv0 + LeadingCount
      /\ SeenAfter(i) = closed[i].inv1
      /\ NothingLaterFor(closed[i].inv1, closed[i].last)
      /\ (mode \in {LEADING, BOTH} /\ Len(calls) > closed[i].last) =>
           IsLeadingOf(closed[i].inv1 + 1, closed[i].last + 1)

\* A BOTH burst of two calls was cancelled before its timer was due, and the
\* next call was made after the cancelled timer's deadline had passed.
C4_Witness ==
  /\ mode = BOTH
  /\ Delay = 1
  /\ Len(closed) >= 1
  /\ closed[1].how = "cancelled"
  /\ closed[1].last = 2
  /\ closed[1].at < calls[2].at + Delay
  /\ Len(calls) = 3
  /\ calls[3].at > calls[2].at + Delay

\* C5. A burst ended by flush() has exactly one invocation made by the flush,
\* at the time of the flush, with the receiver and arguments of the most
\* recent call; after it, until the next call, pending() is false,
\* leadingCalled is false and no timer is live, and nothing is invoked for a
\* call of the burst when the old deadline passes.
C5_FlushInvokesOnce ==
  \A i \in ClosedIdx :
    closed[i].how = "flushed" =>
      /\ WellFormed(closed[i])
      /\ closed[i].inv1 = closed[i].inv0 + LeadingCount + 1
      /\ invocations[closed[i].inv1] =
           [this |-> calls[closed[i].last].this, args |-> calls[closed[i].last].args,
            at |-> closed[i].at, via |-> "flush", ncalls |-> closed[i].last]
      /\ SeenAfter(i) = closed[i].inv1
      /\ NothingLaterFor(closed[i].inv1, closed[i].last)
      /\ (i = Len(closed) /\ open = NoBurst) =>
           ~Pending /\ ~leadingCalled /\ timers = {}

\* A BOTH burst of two calls with different arguments was flushed before its
\* timer was due, and the old deadline has passed.
C5_Witness ==
  /\ mode = BOTH
  /\ Delay = 1
  /\ Len(closed) = 1
  /\ closed[1].how = "flushed"
  /\ closed[1].last = 2
  /\ calls[1].args # calls[2].args
  /\ closed[1].at < calls[2].at + Delay
  /\ now > calls[2].at + Delay
  /\ open = NoBurst

\* C6. pending() is true exactly when a scheduled callback of the controller
\* is live, and exactly when a call has been made with no timer firing, cancel
\* or flush since: false before any call, true after every call, false after
\* the timer fires, after cancel() and after flush().
C6_PendingIffTimerLive ==
  /\ Pending <=> timers # {}
  /\ Pending <=> open # NoBurst
  /\ calls = <<>> => ~Pending

\* With wait = 0, in LEADING mode: pending() after a call that follows a
\* burst ended by its timer and a burst ended by flush.
C6_Witness ==
  /\ mode = LEADING
  /\ Delay = 0
  /\ Len(closed) = 2
  /\ closed[1].how = "fired"
  /\ closed[2].how = "flushed"
  /\ Len(calls) = 3
  /\ Pending

\* What the claim counts as no value given: undefined, null.
Absent(v) == v.k \in {"undefined", "null"}

\* C7. Construction throws, and schedules no timer, when fn is not callable,
\* when the wait given is not a number or is negative, or when the mode given
\* (bare, or as the mode of an options object) is not one of the three modes;
\* it returns a TRAILING controller only when the mode is absent or TRAILING.
C7_ConstructionRejectsInvalid ==
  construction.phase # "new" =>
    LET g == construction.args
        badFn == g.fn.k # "function"
        badWait == ~Absent(g.wait) /\ (TypeOf(g.wait) # "number" \/ LessThanZero(g.wait))
        modeGiven == ~Absent(g.third.v)
        badMode == modeGiven /\ ~(g.third.v.k = "string" /\ g.third.v.s \in DebounceMode)
    IN /\ (badFn \/ badWait \/ badMode) =>
            construction.phase = "threw" /\ construction.error # "" /\ timers = {}
       /\ (construction.phase = "ready" /\ mode = TRAILING) =>
            (~modeGiven \/ g.third.v = Str(TRAILING))

\* C8. At most one scheduled callback of the controller is live; it is the
\* one the closure holds the handle of, scheduled by the most recent call;
\* and a timer that fires is the most recent call's, never a superseded one.
C8_AtMostOneTimer ==
  /\ Cardinality(timers) <= 1
  /\ \A t \in timers :
       /\ t.id = timeoutId
       /\ t.id = nextId - 1
       /\ Len(calls) > 0
       /\ t.due = calls[Len(calls)].at + Delay
  /\ \A i \in ClosedIdx :
       closed[i].how = "fired" =>
         /\ WellFormed(closed[i])
         /\ closed[i].at = calls[closed[i].last].at + Delay

\* A burst of three calls made at different times, each superseding the
\* timer of the one before, has ended with the last timer firing.
C8_Witness ==
  /\ Delay = 2
  /\ Len(closed) = 1
  /\ closed[1].how = "fired"
  /\ closed[1].first = 1
  /\ closed[1].last = 3
  /\ calls[1].at < calls[2].at
  /\ calls[2].at < calls[3].at

\* C9. Every invocation carries the receiver and the arguments of one and the
\* same call: the call it is made in for a leading invocation, the most
\* recent call for a trailing or flush invocation.
C9_ReceiverAndArgsOfOneCall ==
  \A j \in 1..Len(invocations) :
    /\ 1 <= invocations[j].ncalls
    /\ invocations[j].ncalls <= Len(calls)
    /\ invocations[j].this = calls[invocations[j].ncalls].this
    /\ invocations[j].args = calls[invocations[j].ncalls].args
    /\ invocations[j].via = "leading" => invocations[j].at = calls[invocations[j].ncalls].at

\* A leading, a flush and a trailing invocation, the last two each following
\* a call whose receiver and arguments differ from those of the call before.
C9_Witness ==
  /\ mode = BOTH
  /\ Len(calls) = 3
  /\ calls[1].this # calls[2].this
  /\ calls[2].this # calls[3].this
  /\ \E j \in 1..Len(invocations) :
       invocations[j].via = "flush" /\ invocations[j].ncalls = 2
  /\ \E j \in 1..Len(invocations) :
       invocations[j].via = "trailing" /\ invocations[j].ncalls = 3

\* The calls that start a burst.
BurstFirsts ==
  {closed[i].first : i \in ClosedIdx} \cup
  (IF open # NoBurst THEN {open.first} ELSE {})

\* C10. LEADING mode: a call made while a burst is under way is ignored, so
\* every invocation is made for a call that starts a burst, or at least
\* carries the receiver and arguments of the call that started the burst.
C10_LeadingIgnoresBurstCalls ==
  mode = LEADING =>
    \A j \in 1..Len(invocations) :
      \/ invocations[j].ncalls \in BurstFirsts
      \/ \E k \in BurstFirsts :
           /\ k <= invocations[j].ncalls
           /\ \A m \in BurstFirsts : m <= invocations[j].ncalls => m <= k
           /\ calls[k].args = invocations[j].args
           /\ calls[k].this = invocations[j].this

(***************************************************************************)
(* flush and cancel with nothing pending; leadingCalled                    *)
(***************************************************************************)

\* C11. flush() with no timer pending is a no-op: a flush step taken while
\* the host holds no timer of the controller leaves the handle, lastArgs,
\* lastThis, leadingCalled, the host's timers and the invocations of the
\* target as they were, and it returns.
C11_FlushIdleIsNoOp ==
  [][(timers = {} /\ (Flush(Returns) \/ Flush(Throws)))
       => /\ Flush(Returns)
          /\ UNCHANGED <<timeoutId, lastArgs, lastThis, leadingCalled>>
          /\ UNCHANGED <<timers, invocations>>]_vars

\* No timer is pending after a firing, after a cancel and after a flush, and
\* lastArgs holds the arguments of a call: flush() may be called here.
C11_Witness ==
  /\ timers = {}
  /\ lastArgs # NullValue
  /\ \E i, j, k \in ClosedIdx :
       /\ closed[i].how = "fired"
       /\ closed[j].how = "cancelled"
       /\ closed[k].how = "flushed"

\* What the closure and the host hold of the controller.
Held ==
  [timeoutId |-> timeoutId, timers |-> timers, leadingCalled |-> leadingCalled,
   lastArgs |-> lastArgs, lastThis |-> lastThis]

\* What they would hold once cancel() has run in the current state.
HeldAfterCancel ==
  [timeoutId |-> Cleanup(timeoutId, timers).timeoutId,
   timers |-> Cleanup(timeoutId, timers).timers,
   leadingCalled |-> FALSE,
   lastArgs |-> lastArgs, lastThis |-> lastThis]

\* C12. cancel() is idempotent: in the state a cancel() step produces, a
\* second cancel() would change nothing; that state is idle (no handle, no
\* timer, leadingCalled false), and no cancel() step, with or without a
\* timer pending, invokes the target or touches lastArgs and lastThis.
C12_CancelIdempotent ==
  [][Cancel => /\ Held' = HeldAfterCancel
               /\ HeldAfterCancel' = Held'
               /\ timeoutId' = NoTimer /\ timers' = {} /\ ~leadingCalled'
               /\ invocations' = invocations]_vars

\* cancel() has ended a burst whose leading edge had fired, and nothing is
\* pending: a second cancel() may follow.
C12_Witness ==
  /\ mode \in {LEADING, BOTH}
  /\ Len(closed) > 0
  /\ closed[Len(closed)].how = "cancelled"
  /\ closed[Len(closed)].inv0 < closed[Len(closed)].inv1
  /\ open = NoBurst
  /\ timers = {}

\* C13. leadingCalled is true only while a timer is pending (the handle is
\* held and the host holds the timer); it is false once a burst has ended
\* by a firing, a cancel or a flush; and it is never true in TRAILING mode.
C13_LeadingCalledOnlyWhilePending ==
  /\ leadingCalled => (Pending /\ timers # {})
  /\ open = NoBurst => ~leadingCalled
  /\ mode = TRAILING => ~leadingCalled

\* Two bursts of a LEADING or BOTH controller have ended, one of them by a
\* firing and the other by a cancel or a flush, each after its leading edge
\* had set leadingCalled, and a third call has set leadingCalled again.
C13_Witness ==
  /\ leadingCalled
  /\ Len(closed) = 2
  /\ \E i, j \in ClosedIdx :
       /\ closed[i].how = "fired"
       /\ closed[j].how \in {"cancelled", "flushed"}
  /\ \A i \in ClosedIdx : closed[i].inv0 < closed[i].inv1

(***************************************************************************)
(* A target that raises                                                    *)
(***************************************************************************)

\* C14. When the target raises in the invocation made by a timer firing or
\* by flush(), the controller ends as after a successful fire: no handle is
\* held (pending() is false) and leadingCalled is false.
C14_RaisingFireEndsIdle ==
  [][((\E t \in timers : TimerFires(t, Throws)) \/ Flush(Throws))
       => (~Pending' /\ ~leadingCalled')]_vars

(***************************************************************************)
(* A target that calls the debounced function                              *)
(***************************************************************************)

\* C15. When the target calls the debounced function while it runs, the
\* controller keeps track of the timer that call scheduled: once the handler
\* that applied the target has finished, at most one timer of the controller
\* is live at the host, and pending() is true exactly while one is (so that
\* cancel() clears it).
C15_ReentrantCallTracked ==
  frame = NoFrame =>
    /\ Cardinality(timers) <= 1
    /\ Pending <=> timers # {}

(***************************************************************************)
(* BOTH mode: every firing invokes                                         *)
(***************************************************************************)

\* C16. In BOTH mode the test made by the callback of a timer is true for
\* every timer the host holds, so it is true when the timer fires: the
\* timer was scheduled with shouldCallTrailing, and if it was scheduled by
\* the call that made the leading invocation, leadingCalled is still true.
\* Every burst ended by a firing has the trailing invocation of that firing.
C16_BothFiringInvokes ==
  mode = BOTH =>
    /\ \A t \in timers :
         /\ t.shouldCallTrailing
         /\ t.shouldCallLeading => leadingCalled
    /\ \A i \in ClosedIdx :
         closed[i].how = "fired" =>
           /\ closed[i].inv1 \in 1..Len(invocations)
           /\ invocations[closed[i].inv1].via = "trailing"
           /\ invocations[closed[i].inv1].at = closed[i].at

\* In BOTH mode a timer scheduled by the call that made the leading
\* invocation has fired, and so has a timer scheduled by a later call of a
\* burst.
C16_Witness ==
  /\ mode = BOTH
  /\ \E i, j \in ClosedIdx :
       /\ closed[i].how = "fired" /\ closed[i].first = closed[i].last
       /\ closed[j].how = "fired" /\ closed[j].first < closed[j].last

(***************************************************************************)
(* A burst ends                                                            *)
(***************************************************************************)

\* Nothing is pending.
Idle == ~Pending /\ ~leadingCalled /\ timers = {}

\* The controller is idle, and if the last burst was ended by its timer, then
\* in TRAILING and BOTH mode the firing invoked the target for the latest
\* call, with the arguments the closure holds, and in LEADING mode the burst
\* has its leading invocation and no other.
BurstSettled ==
  /\ Idle
  /\ Len(closed) > 0
  /\ LET b == closed[Len(closed)]
     IN b.how = "fired" =>
          /\ b.last = Len(calls)
          /\ mode \in {TRAILING, BOTH} =>
               /\ b.inv1 = Len(invocations)
               /\ IsTrailingOf(b.inv1, b.last)
               /\ invocations[b.inv1].args = lastArgs
          /\ mode = LEADING =>
               /\ b.inv1 = b.inv0 + 1
               /\ IsLeadingOf(b.inv1, b.first)

\* C17. After a call, when the host lets time pass and fires due timers, the
\* controller comes back to the idle state (pending() false, leadingCalled
\* false); when no call, cancel() or flush() came in between, it is the
\* timer that ended the burst, and then the target has been invoked with the
\* latest arguments in TRAILING and BOTH mode, and in LEADING mode nothing
\* was invoked when the burst ended.
C17_EventuallyIdle == Pending ~> BurstSettled

\* A burst of several calls has been ended by its timer.
C17_Witness ==
  /\ BurstSettled
  /\ closed[Len(closed)].how = "fired"
  /\ closed[Len(closed)].first < closed[Len(closed)].last

(***************************************************************************)
(* TRAILING mode: no call is delivered twice                               *)
(***************************************************************************)

\* C18. In TRAILING mode every invocation of the target is made with the
\* arguments of a call made before it, no call has two invocations, and
\* there are never more invocations than calls.
C18_TrailingDeliversOnce ==
  mode = TRAILING =>
    /\ Len(invocations) <= Len(calls)
    /\ \A j \in 1..Len(invocations) :
         /\ invocations[j].ncalls \in 1..Len(calls)
         /\ invocations[j].args = calls[invocations[j].ncalls].args
         /\ calls[invocations[j].ncalls].at <= invocations[j].at
    /\ \A i, j \in 1..Len(invocations) :
         i # j => invocations[i].ncalls # invocations[j].ncalls

\* In TRAILING mode a burst was ended by flush() before its deadline, the
\* deadline has passed since with no call in between, and a firing and a
\* flush have each delivered a call.
C18_Witness ==
  /\ mode = TRAILING
  /\ \E j, k \in 1..Len(invocations) :
       invocations[j].via = "trailing" /\ invocations[k].via = "flush"
  /\ \E i \in ClosedIdx :
       /\ closed[i].how = "flushed"
       /\ closed[i].at < calls[closed[i].last].at + Delay
       /\ calls[closed[i].last].at + Delay <= now
       /\ \A k \in 1..Len(calls) : calls[k].at <= closed[i].at

(***************************************************************************)
(* Two controllers                                                         *)
(***************************************************************************)

\* What controller i holds: its closure variables and its timers at the host.
Controller(i) ==
  IF i = active
  THEN [timeoutId |-> timeoutId, lastArgs |-> lastArgs, lastThis |-> lastThis,
        leadingCalled |-> leadingCalled,
        timers |-> {t \in timers : t.id \in OwnIds}]
  ELSE [timeoutId |-> peer.timeoutId, lastArgs |-> peer.lastArgs,
        lastThis |-> peer.lastThis, leadingCalled |-> peer.leadingCalled,
        timers |-> {t \in timers : t.id \in peer.ids}]

\* C19. Two controllers are independent: a call, a timer firing, a cancel()
\* or a flush() of one controller leaves the other controller's handle,
\* lastArgs, lastThis, leadingCalled and pending timer as they were, and
\* turning from one controller to the other changes neither.
C19_ControllersIndependent ==
  [][\A i \in Controllers :
       (i # active \/ active' # active) => Controller(i)' = Controller(i)]_vars

\* Both controllers had a timer pending; the burst of the one in use has
\* ended, by a firing, a cancel or a flush, and the timer of the other one
\* is still pending.
C19_Witness ==
  /\ peer # NoPeer
  /\ peer.timeoutId # NoTimer
  /\ \E t \in timers : t.id = peer.timeoutId
  /\ Len(closed) > 0
  /\ calls[closed[Len(closed)].last].at <= calls[peer.open.first].at + 1
  /\ calls[peer.open.first].at <= closed[Len(closed)].at
  /\ ~Pending

(***************************************************************************)
(* flush and lastArgs                                                      *)
(***************************************************************************)

\* C20. Whenever a timer is pending lastArgs is not null, so the test flush
\* makes of lastArgs changes nothing: the test of flush is true exactly
\* when a timer is pending, every flush() made with a timer pending has
\* invoked the target, and no flush() made without one has.
C20_FlushIffPending ==
  /\ Pending => lastArgs # NullValue
  /\ timers # {} => lastArgs # NullValue
  /\ FlushCondition(timeoutId, lastArgs) <=> timers # {}
  /\ \A i \in ClosedIdx :
       closed[i].how = "flushed" =>
         /\ closed[i].inv1 \in 1..Len(invocations)
         /\ invocations[closed[i].inv1].via = "flush"
         /\ invocations[closed[i].inv1].at = closed[i].at
  /\ Cardinality({j \in 1..Len(invocations) : invocations[j].via = "flush"})
       = Cardinality({i \in ClosedIdx : closed[i].how = "flushed"})

\* flush() has been called with a timer pending, and a timer is pending
\* again.
C20_Witness ==
  /\ Pending
  /\ timers # {}
  /\ \E i \in ClosedIdx : closed[i].how = "flushed"
  /\ \E j \in 1..Len(invocations) : invocations[j].via = "flush"

====
